---- MODULE Spec2Model ----
(***************************************************************************)
(* A model of the HyperCore action codec (corewriter_example.py) and of    *)
(* the Multicall3 batch reader (multicall_example.py).                     *)
(*                                                                         *)
(* Bytes are sequences of numbers 0..255, Python strings are sequences of  *)
(* one-character strings.  A call that can raise returns a record with an  *)
(* ok flag and the name of the exception in err.                           *)
(*                                                                         *)
(* A client sits at pc = "idle", makes one call (or one chain of calls,    *)
(* as main() does: build an action and decode it), and returns to idle.    *)
(***************************************************************************)
EXTENDS Integers, Sequences, FiniteSets, TLC

VARIABLES
    pc,        \* where the client is
    action,    \* the builder call made: [kind, params]
    encoded,   \* the builder's result: [ok, bytes, err]
    decIn,     \* the argument given to decode_action
    decoded,   \* decode_action's result
    response,  \* the perpAssetInfo precompile's return data and what arrived of it
    hexData,   \* the hex_data argument of _parse_perp_asset_info
    info,      \* the result of _parse_perp_asset_info
    op,        \* batch reader: the operation under way
    req,       \* the index list of the batch call under way
    calls,     \* the (target, allowFailure, calldata) list submitted
    results,   \* the (success, returnData) list received
    out,       \* what the operation returned
    err,       \* the exception that left the operation, "" if none
    chunks,    \* get_all_*: the chunks of the universe
    ci,        \* get_all_*: number of chunks processed
    issued,    \* get_all_*: the sizes of the batch calls issued so far
    acc,       \* get_all_*: all_prices / all_positions / all_balances so far
    batch_size, \* get_all_*: batch_size; chunk_list: its chunk_size argument
    behav      \* how the precompiles answered each call, chunk by chunk

codecVars == <<action, encoded, decIn, decoded>>
parseVars == <<response, hexData, info>>
batchVars == <<op, req, calls, results, out, err, chunks, ci, issued, acc, batch_size, behav>>
vars == <<pc, action, encoded, decIn, decoded, response, hexData, info,
          op, req, calls, results, out, err, chunks, ci, issued, acc, batch_size, behav>>

(***************************************************************************)
(* Bytes, words and hex strings                                            *)
(***************************************************************************)
Min(a, b) == IF a < b THEN a ELSE b

Zeros(n) == [i \in 1..n |-> 0]

\* Python's s[a:b] for 0 <= a, on a sequence (0-based, end exclusive, clipped).
Slice(s, a, b) == SubSeq(s, a + 1, Min(b, Len(s)))

RECURSIVE Flatten(_)
Flatten(ss) == IF ss = <<>> THEN <<>> ELSE Head(ss) \o Flatten(Tail(ss))

\* int.to_bytes(32, "big") of a value below 2^31: the low four bytes carry it.
UintWord(v) ==
    [i \in 1..32 |->
        CASE i = 32 -> v % 256
          [] i = 31 -> (v \div 256) % 256
          [] i = 30 -> (v \div 65536) % 256
          [] i = 29 -> (v \div 16777216) % 256
          [] OTHER  -> 0]

HexChars == <<"0", "1", "2", "3", "4", "5", "6", "7",
              "8", "9", "a", "b", "c", "d", "e", "f">>
UpperHexChars == <<"0", "1", "2", "3", "4", "5", "6", "7",
                   "8", "9", "A", "B", "C", "D", "E", "F">>

IsHexChar(c) == \E v \in 1..16 : HexChars[v] = c \/ UpperHexChars[v] = c
HexVal(c) == (CHOOSE v \in 1..16 : HexChars[v] = c \/ UpperHexChars[v] = c) - 1

\* bytes.hex() with the two digits of each byte in each other's place.
HexNibblesSwapped(b) ==
    [i \in 1..(2 * Len(b)) |->
        IF i % 2 = 1 THEN HexChars[(b[(i + 1) \div 2] % 16) + 1]
                     ELSE HexChars[(b[i \div 2] \div 16) + 1]]

\* bytes.hex()
Hex(b) ==
    [i \in 1..(2 * Len(b)) |->
        IF i % 2 = 1 THEN HexChars[(b[(i + 1) \div 2] \div 16) + 1]
                     ELSE HexChars[(b[i \div 2] % 16) + 1]]

\* bytes.fromhex(s): ValueError on an odd number of digits or a non-hex character.
fromhex(s) ==
    IF Len(s) % 2 = 0 /\ \A i \in 1..Len(s) : IsHexChar(s[i])
    THEN [ok |-> TRUE,
          bytes |-> [i \in 1..(Len(s) \div 2) |->
                        16 * HexVal(s[2 * i - 1]) + HexVal(s[2 * i])],
          err |-> ""]
    ELSE [ok |-> FALSE, bytes |-> <<>>, err |-> "ValueError"]

\* str.replace("0x", ""): every occurrence goes (two occurrences of "0x" cannot
\* overlap).  A character stays unless it is the "0" or the "x" of an occurrence.
NotIn0x(e) == ~(e.c = "0" /\ e.next = "x") /\ ~(e.prev = "0" /\ e.c = "x")

Replace0x(s) ==
    LET n == Len(s)
        ctx == [i \in 1..n |-> [c |-> s[i],
                                prev |-> IF i > 1 THEN s[i - 1] ELSE "",
                                next |-> IF i < n THEN s[i + 1] ELSE ""]]
        kept == SelectSeq(ctx, NotIn0x)
    IN [i \in 1..Len(kept) |-> kept[i].c]

(***************************************************************************)
(* eth_abi.encode and Web3.to_checksum_address, as the builders use them   *)
(***************************************************************************)
Bits(t) ==
    CASE t = "uint8" -> 8 [] t = "uint16" -> 16 [] t = "uint32" -> 32
      [] t = "uint64" -> 64 [] t = "uint128" -> 128 [] OTHER -> 0

\* The encoder's range check.  Every non-negative value the model can hold is
\* within a width of 32 bits or more.
InRange(t, v) ==
    CASE t = "uint8"  -> v >= 0 /\ v < 256
      [] t = "uint16" -> v >= 0 /\ v < 65536
      [] t \in {"uint32", "uint64", "uint128"} -> v >= 0
      [] OTHER -> TRUE

\* to_checksum_address: a 40-digit hex string, with or without 0x, or ValueError.
\* The checksum only changes the case of the digits, which the address encoder
\* ignores; the digits are kept as given.
StripPrefix(s) ==
    IF Len(s) >= 2 /\ s[1] = "0" /\ s[2] \in {"x", "X"} THEN SubSeq(s, 3, Len(s)) ELSE s

to_checksum_address(s) ==
    LET d == StripPrefix(s)
    IN IF Len(d) = 40 /\ \A i \in 1..40 : IsHexChar(d[i])
       THEN [ok |-> TRUE, addr |-> <<"0", "x">> \o d, err |-> ""]
       ELSE [ok |-> FALSE, addr |-> <<>>, err |-> "ValueError"]

\* str.encode("utf-8") of a sequence of code points below 2048.
RECURSIVE Utf8(_)
Utf8(cps) ==
    IF cps = <<>> THEN <<>>
    ELSE LET c == Head(cps)
         IN (IF c < 128 THEN <<c>> ELSE <<192 + (c \div 64), 128 + (c % 64)>>)
            \o Utf8(Tail(cps))

\* Padding that adds a whole word to data already on a 32-byte boundary.
PadRight32Always(b) == b \o Zeros(32 - (Len(b) % 32))

PadRight32(b) == b \o Zeros((32 - (Len(b) % 32)) % 32)

IsDynamic(t) == t = "string"

\* One value's own encoding: a word for a static type, length word and padded
\* data for a string.
EncodeValue(t, v) ==
    CASE t = "bool"    -> UintWord(IF v THEN 1 ELSE 0)
      [] t = "address" -> Zeros(12) \o fromhex(StripPrefix(v)).bytes
      [] t = "string"  -> UintWord(Len(Utf8(v))) \o PadRight32(Utf8(v))
      [] OTHER         -> UintWord(v)

RECURSIVE TailsBefore(_, _, _)
TailsBefore(types, values, k) ==
    IF k <= 1 THEN <<>>
    ELSE TailsBefore(types, values, k - 1)
         \o (IF IsDynamic(types[k - 1])
             THEN EncodeValue(types[k - 1], values[k - 1]) ELSE <<>>)

\* eth_abi.encode(types, values): the head (a static value inline, a dynamic one
\* as the offset of its data from the start of the tuple), then the tails.
encode(types, values) ==
    IF \E k \in 1..Len(types) :
          Bits(types[k]) > 0 /\ ~InRange(types[k], values[k])
    THEN [ok |-> FALSE, bytes |-> <<>>, err |-> "ValueOutOfBounds"]
    ELSE LET n == Len(types)
             head == [k \in 1..n |->
                        IF IsDynamic(types[k])
                        THEN UintWord(32 * n + Len(TailsBefore(types, values, k)))
                        ELSE EncodeValue(types[k], values[k])]
         IN [ok |-> TRUE,
             bytes |-> Flatten(head) \o TailsBefore(types, values, n + 1),
             err |-> ""]

(***************************************************************************)
(* HyperCoreWriter                                                         *)
(***************************************************************************)
VERSION == 1

LIMIT_ORDER == 1
VAULT_TRANSFER == 2
TOKEN_DELEGATE == 3
STAKING_DEPOSIT == 4
STAKING_WITHDRAW == 5
SPOT_SEND == 6
USD_CLASS_TRANSFER == 7
FINALIZE_EVM_CONTRACT == 8
ADD_API_WALLET == 9
CANCEL_ORDER_BY_OID == 10
CANCEL_ORDER_BY_CLOID == 11
APPROVE_BUILDER_FEE == 12
SEND_ASSET == 13
REFLECT_EVM_SUPPLY == 14
BORROW_LEND_OP == 15

ActionIds == 1..15

\* A header with the action id in little-endian order.
EncodeHeaderLittleEndian(action_id) ==
    <<VERSION, action_id % 256, (action_id \div 256) % 256, (action_id \div 65536) % 256>>

_encode_header(action_id) ==
    <<VERSION, (action_id \div 65536) % 256, (action_id \div 256) % 256, action_id % 256>>

_concat_bytes(header, data) == header \o data

\* header + encode(types, values), or the exception encode raised.
BuildWith(action_id, types, values) ==
    LET header == _encode_header(action_id)
        data == encode(types, values)
    IN IF data.ok
       THEN [ok |-> TRUE, bytes |-> _concat_bytes(header, data.bytes), err |-> ""]
       ELSE data

\* The same after to_checksum_address of the address arguments.
BuildChecked(action_id, addrs, types, values) ==
    IF \E k \in 1..Len(addrs) : ~to_checksum_address(addrs[k]).ok
    THEN [ok |-> FALSE, bytes |-> <<>>, err |-> "ValueError"]
    ELSE BuildWith(action_id, types, values)

Checksummed(s) == to_checksum_address(s).addr

\* build_limit_order with sz and limit_px in each other's place.
BuildLimitOrderSwapped(params) ==
    BuildWith(LIMIT_ORDER,
              <<"uint32", "bool", "uint64", "uint64", "bool", "uint8", "uint128">>,
              <<params.asset, params.is_buy, params.sz, params.limit_px,
                params.reduce_only, params.encoded_tif, params.cloid>>)

build_limit_order(params) ==
    BuildWith(LIMIT_ORDER,
              <<"uint32", "bool", "uint64", "uint64", "bool", "uint8", "uint128">>,
              <<params.asset, params.is_buy, params.limit_px, params.sz,
                params.reduce_only, params.encoded_tif, params.cloid>>)

build_vault_transfer(params) ==
    BuildChecked(VAULT_TRANSFER, <<params.vault>>,
                 <<"address", "bool", "uint64">>,
                 <<Checksummed(params.vault), params.is_deposit, params.usd>>)

build_token_delegate(params) ==
    BuildChecked(TOKEN_DELEGATE, <<params.validator>>,
                 <<"address", "uint64", "bool">>,
                 <<Checksummed(params.validator), params.wei, params.is_undelegate>>)

build_staking_deposit(params) ==
    BuildWith(STAKING_DEPOSIT, <<"uint64">>, <<params.wei>>)

build_staking_withdraw(params) ==
    BuildWith(STAKING_WITHDRAW, <<"uint64">>, <<params.wei>>)

build_spot_send(params) ==
    BuildChecked(SPOT_SEND, <<params.destination>>,
                 <<"address", "uint64", "uint64">>,
                 <<Checksummed(params.destination), params.token, params.wei>>)

build_usd_class_transfer(params) ==
    BuildWith(USD_CLASS_TRANSFER, <<"uint64", "bool">>, <<params.ntl, params.to_perp>>)

build_finalize_evm_contract(params) ==
    BuildWith(FINALIZE_EVM_CONTRACT, <<"uint64", "uint8", "uint64">>,
              <<params.token, params.variant, params.create_nonce>>)

build_add_api_wallet(params) ==
    BuildChecked(ADD_API_WALLET, <<params.wallet>>,
                 <<"address", "string">>,
                 <<Checksummed(params.wallet), params.name>>)

build_cancel_order_by_oid(params) ==
    BuildWith(CANCEL_ORDER_BY_OID, <<"uint32", "uint64">>, <<params.asset, params.oid>>)

build_cancel_order_by_cloid(params) ==
    BuildWith(CANCEL_ORDER_BY_CLOID, <<"uint32", "uint128">>,
              <<params.asset, params.cloid>>)

build_approve_builder_fee(params) ==
    BuildChecked(APPROVE_BUILDER_FEE, <<params.builder>>,
                 <<"uint64", "address">>,
                 <<params.max_fee_rate, Checksummed(params.builder)>>)

build_send_asset(params) ==
    BuildChecked(SEND_ASSET, <<params.dest, params.sub_account>>,
                 <<"address", "address", "uint32", "uint32", "uint64", "uint64">>,
                 <<Checksummed(params.dest), Checksummed(params.sub_account),
                   params.src_dex, params.dest_dex, params.token, params.wei>>)

build_reflect_evm_supply(params) ==
    BuildWith(REFLECT_EVM_SUPPLY, <<"uint64", "uint64", "bool">>,
              <<params.token, params.wei, params.is_mint>>)

build_borrow_lend_op(params) ==
    BuildWith(BORROW_LEND_OP, <<"uint8", "uint64", "uint64">>,
              <<params.operation, params.token, params.wei>>)

\* data[i] of Python bytes: IndexError past the end.
ByteAt(b, i) ==
    IF i < Len(b) THEN [ok |-> TRUE, v |-> b[i + 1]] ELSE [ok |-> FALSE, v |-> 0]

NoDecoded == [ok |-> FALSE, version |-> 0, action_id |-> 0, params |-> <<>>, err |-> ""]

Raised(e) == [NoDecoded EXCEPT !.err = e]

\* decode_action reading the header from the data padded to four bytes.
DecodeActionLenient(data) ==
    LET norm == IF data.isStr THEN fromhex(Replace0x(data.str))
                ELSE [ok |-> TRUE, bytes |-> data.bytes, err |-> ""]
        b == norm.bytes \o Zeros(4)
    IN IF ~norm.ok THEN Raised(norm.err)
       ELSE [ok |-> TRUE, version |-> b[1],
             action_id |-> b[2] * 65536 + b[3] * 256 + b[4],
             params |-> <<"0", "x">> \o Hex(Slice(norm.bytes, 4, Len(norm.bytes))),
             err |-> ""]

\* data is [isStr, bytes, str]: Python bytes, or a str holding hex digits.
decode_action(data) ==
    LET norm == IF data.isStr THEN fromhex(Replace0x(data.str))
                ELSE [ok |-> TRUE, bytes |-> data.bytes, err |-> ""]
        b == norm.bytes
        b0 == ByteAt(b, 0)
        b1 == ByteAt(b, 1)
        b2 == ByteAt(b, 2)
        b3 == ByteAt(b, 3)
    IN IF ~norm.ok THEN Raised(norm.err)
       ELSE IF ~b0.ok \/ ~b1.ok \/ ~b2.ok \/ ~b3.ok THEN Raised("IndexError")
       ELSE [ok |-> TRUE,
             version |-> b0.v,
             action_id |-> b1.v * 65536 + b2.v * 256 + b3.v,
             params |-> <<"0", "x">> \o Hex(Slice(b, 4, Len(b))),
             err |-> ""]

(***************************************************************************)
(* The values the client passes to the builders and to decode_action       *)
(***************************************************************************)
\* Raw bytes and hex strings of up to MaxRawLen bytes are given to decode_action.
MaxRawLen == 5

U8Samples == {0, 255, 256}
U32Samples == {0, 70000}
DexSamples == {1, 4294}
U64Samples == {1000000, 7}
SzSamples == {100, 16777216}
WeiSamples == {0, 305419896, -1}
U128Samples == {0, 2130706433}

\* 0x3333...33 (the CoreWriter address), an unprefixed upper-case address, one
\* that is too short, and a second well-formed one.
AddrSamples ==
    { <<"0", "x">> \o [i \in 1..40 |-> "3"],
      [i \in 1..40 |-> UpperHexChars[((7 * i) % 16) + 1]],
      <<"0", "x", "1", "2", "3", "4">> }
SubAccountSamples ==
    { <<"0", "x">> \o [i \in 1..40 |-> HexChars[((3 * i) % 16) + 1]],
      <<"0", "x">> \o [i \in 1..40 |-> "0"] }

\* Names as code points: "bot1", "", a 32-byte name, a 33-byte name, and one with
\* a two-byte character.
NameSamples ==
    { <<98, 111, 116, 49>>, <<>>, [i \in 1..32 |-> 97], [i \in 1..33 |-> 98],
      <<233, 49>> }

ByteSamples == {0, 1, 171}

SeqsUpTo(S, n) == UNION {[1..k -> S] : k \in 0..n}

\* What decode_action is given when it is not a builder's output: short and long
\* byte strings, and headers followed by anything.
ForeignBytes ==
    SeqsUpTo(ByteSamples, MaxRawLen)
    \cup {_encode_header(id) \o t : id \in ActionIds, t \in SeqsUpTo({171}, 2)}

AsBytes(b) == [isStr |-> FALSE, bytes |-> b, str |-> <<>>]
AsHex(b) == [isStr |-> TRUE, bytes |-> <<>>, str |-> Hex(b)]
As0xHex(b) == [isStr |-> TRUE, bytes |-> <<>>, str |-> <<"0", "x">> \o Hex(b)]

Forms(b) == {AsBytes(b), AsHex(b), As0xHex(b)}

\* Strings that are no hex strings: an odd number of digits, a foreign character.
BadStrings ==
    { [isStr |-> TRUE, bytes |-> <<>>, str |-> <<"0", "x", "0", "1", "0">>],
      [isStr |-> TRUE, bytes |-> <<>>, str |-> <<"0", "1", "0", "2", "0", "3", "0", "g">>] }

LimitOrderParams ==
    [asset : U32Samples, is_buy : BOOLEAN, limit_px : U64Samples, sz : SzSamples,
     reduce_only : BOOLEAN, encoded_tif : U8Samples, cloid : U128Samples]

VaultTransferParams ==
    [vault : AddrSamples, is_deposit : BOOLEAN, usd : U64Samples]

TokenDelegateParams ==
    [validator : AddrSamples, wei : WeiSamples, is_undelegate : BOOLEAN]

StakingDepositParams ==
    [wei : WeiSamples]

StakingWithdrawParams ==
    [wei : WeiSamples]

SpotSendParams ==
    [destination : AddrSamples, token : U64Samples, wei : WeiSamples]

UsdClassTransferParams ==
    [ntl : U64Samples, to_perp : BOOLEAN]

FinalizeEvmContractParams ==
    [token : U64Samples, variant : U8Samples, create_nonce : WeiSamples]

AddApiWalletParams ==
    [wallet : AddrSamples, name : NameSamples]

CancelOrderByOidParams ==
    [asset : U32Samples, oid : U64Samples]

CancelOrderByCloidParams ==
    [asset : U32Samples, cloid : U128Samples]

ApproveBuilderFeeParams ==
    [max_fee_rate : U64Samples, builder : AddrSamples]

SendAssetParams ==
    [dest : AddrSamples, sub_account : SubAccountSamples, src_dex : U32Samples,
     dest_dex : DexSamples, token : U64Samples, wei : WeiSamples]

ReflectEvmSupplyParams ==
    [token : U64Samples, wei : WeiSamples, is_mint : BOOLEAN]

BorrowLendOpParams ==
    [operation : U8Samples, token : U64Samples, wei : WeiSamples]

(***************************************************************************)
(* The client of the codec                                                 *)
(***************************************************************************)
NoAction == [kind |-> 0, params |-> <<>>]
NoEncoded == [ok |-> FALSE, bytes |-> <<>>, err |-> ""]
NoDecIn == [isStr |-> FALSE, bytes |-> <<>>, str |-> <<>>]
NoInfo == [ok |-> FALSE, index |-> 0, coin |-> <<>>, margin_table_id |-> 0,
           sz_decimals |-> 0, max_leverage |-> 0, only_isolated |-> FALSE]

CodecIdle ==
    /\ action = NoAction
    /\ encoded = NoEncoded
    /\ decIn = NoDecIn
    /\ decoded = NoDecoded

NoResponse == [coin |-> <<>>, margin_table_id |-> 0, sz_decimals |-> 0,
               max_leverage |-> 0, only_isolated |-> FALSE, base |-> 0, soff |-> 0,
               full |-> <<>>, cut |-> 0, index |-> 0]

ParseIdle ==
    /\ response = NoResponse
    /\ hexData = <<>>
    /\ info = NoInfo

BatchIdle ==
    /\ op = "none"
    /\ req = <<>>
    /\ calls = <<>>
    /\ results = <<>>
    /\ out = <<>>
    /\ err = ""
    /\ chunks = <<>>
    /\ ci = 0
    /\ issued = <<>>
    /\ acc = <<>>
    /\ batch_size = 0
    /\ behav = <<>>

Init ==
    /\ pc = "idle"
    /\ CodecIdle
    /\ ParseIdle
    /\ BatchIdle

\* A builder was called with params and returned (or raised) result.
Built(kind, params, result) ==
    /\ pc = "idle"
    /\ action' = [kind |-> kind, params |-> params]
    /\ encoded' = result
    /\ pc' = "built"
    /\ UNCHANGED <<decIn, decoded>>
    /\ UNCHANGED parseVars
    /\ UNCHANGED batchVars

BuildLimitOrder ==
    \E p \in LimitOrderParams : Built(LIMIT_ORDER, p, build_limit_order(p))

BuildVaultTransfer ==
    \E p \in VaultTransferParams : Built(VAULT_TRANSFER, p, build_vault_transfer(p))

BuildTokenDelegate ==
    \E p \in TokenDelegateParams : Built(TOKEN_DELEGATE, p, build_token_delegate(p))

BuildStakingDeposit ==
    \E p \in StakingDepositParams : Built(STAKING_DEPOSIT, p, build_staking_deposit(p))

BuildStakingWithdraw ==
    \E p \in StakingWithdrawParams : Built(STAKING_WITHDRAW, p, build_staking_withdraw(p))

BuildSpotSend ==
    \E p \in SpotSendParams : Built(SPOT_SEND, p, build_spot_send(p))

BuildUsdClassTransfer ==
    \E p \in UsdClassTransferParams : Built(USD_CLASS_TRANSFER, p, build_usd_class_transfer(p))

BuildFinalizeEvmContract ==
    \E p \in FinalizeEvmContractParams : Built(FINALIZE_EVM_CONTRACT, p, build_finalize_evm_contract(p))

BuildAddApiWallet ==
    \E p \in AddApiWalletParams : Built(ADD_API_WALLET, p, build_add_api_wallet(p))

BuildCancelOrderByOid ==
    \E p \in CancelOrderByOidParams : Built(CANCEL_ORDER_BY_OID, p, build_cancel_order_by_oid(p))

BuildCancelOrderByCloid ==
    \E p \in CancelOrderByCloidParams : Built(CANCEL_ORDER_BY_CLOID, p, build_cancel_order_by_cloid(p))

BuildApproveBuilderFee ==
    \E p \in ApproveBuilderFeeParams : Built(APPROVE_BUILDER_FEE, p, build_approve_builder_fee(p))

BuildSendAsset ==
    \E p \in SendAssetParams : Built(SEND_ASSET, p, build_send_asset(p))

BuildReflectEvmSupply ==
    \E p \in ReflectEvmSupplyParams : Built(REFLECT_EVM_SUPPLY, p, build_reflect_evm_supply(p))

BuildBorrowLendOp ==
    \E p \in BorrowLendOpParams : Built(BORROW_LEND_OP, p, build_borrow_lend_op(p))

\* decode_action(data) returned (or raised).
Decoded(data) ==
    /\ decIn' = data
    /\ decoded' = decode_action(data)
    /\ pc' = "decoded"
    /\ UNCHANGED <<action, encoded>>
    /\ UNCHANGED parseVars
    /\ UNCHANGED batchVars

\* main(): the action just built is decoded, as bytes or as its hex string.
DecodeBuilt ==
    /\ pc = "built"
    /\ encoded.ok
    /\ \E data \in Forms(encoded.bytes) : Decoded(data)

\* decode_action on data that no builder of this client produced.
DecodeForeign ==
    /\ pc = "idle"
    /\ \E data \in (UNION {Forms(b) : b \in ForeignBytes}) \cup BadStrings : Decoded(data)

\* The caller is done with the results.
CodecReturn ==
    /\ pc \in {"built", "decoded"}
    /\ pc' = "idle"
    /\ action' = NoAction
    /\ encoded' = NoEncoded
    /\ decIn' = NoDecIn
    /\ decoded' = NoDecoded
    /\ UNCHANGED parseVars
    /\ UNCHANGED batchVars

NextCodec ==
    \/ BuildLimitOrder
    \/ BuildVaultTransfer
    \/ BuildTokenDelegate
    \/ BuildStakingDeposit
    \/ BuildStakingWithdraw
    \/ BuildSpotSend
    \/ BuildUsdClassTransfer
    \/ BuildFinalizeEvmContract
    \/ BuildAddApiWallet
    \/ BuildCancelOrderByOid
    \/ BuildCancelOrderByCloid
    \/ BuildApproveBuilderFee
    \/ BuildSendAsset
    \/ BuildReflectEvmSupply
    \/ BuildBorrowLendOp
    \/ DecodeBuilt
    \/ DecodeForeign
    \/ CodecReturn

SpecCodec == Init /\ [][NextCodec]_vars

(***************************************************************************)
(* HyperCoreMulticall._parse_perp_asset_info                               *)
(***************************************************************************)
\* A word value too large for the model's numbers; it is larger than any word
\* index or length of a response.
Huge == 268435456

\* int(s, 16) of a non-empty string of hex digits: exact below 16^7, Huge above.
IntOfHex(s) ==
    LET n == Len(s)
        low == IF n > 7 THEN SubSeq(s, n - 6, n) ELSE s
        k == Len(low)
        Pow16(e) == CASE e = 0 -> 1 [] e = 1 -> 16 [] e = 2 -> 256 [] e = 3 -> 4096
                      [] e = 4 -> 65536 [] e = 5 -> 1048576 [] e = 6 -> 16777216
        Digit(i) == HexVal(low[i]) * Pow16(k - i)
        Sum7 == (IF k >= 1 THEN Digit(1) ELSE 0) + (IF k >= 2 THEN Digit(2) ELSE 0)
                + (IF k >= 3 THEN Digit(3) ELSE 0) + (IF k >= 4 THEN Digit(4) ELSE 0)
                + (IF k >= 5 THEN Digit(5) ELSE 0) + (IF k >= 6 THEN Digit(6) ELSE 0)
                + (IF k >= 7 THEN Digit(7) ELSE 0)
    IN IF \E i \in 1..(n - 7) : s[i] # "0" THEN Huge ELSE Sum7

\* read_uint: the slice of the word, as far as the string reaches; int() of an
\* empty slice raises ValueError, int() of a shorter slice does not.
read_uint(hex_data, word_index) ==
    LET start == 2 + word_index * 64
        slice_data == Slice(hex_data, start, start + 64)
    IN IF slice_data = <<>> THEN [ok |-> FALSE, v |-> 0]
       ELSE [ok |-> TRUE, v |-> IntOfHex(slice_data)]

\* The loop over string_hex: the codes of its two-digit pieces, zero skipped.
RECURSIVE CoinOf(_)
CoinOf(string_hex) ==
    IF string_hex = <<>> THEN <<>>
    ELSE LET char_code == IntOfHex(Slice(string_hex, 0, 2))
         IN (IF char_code > 0 THEN <<char_code>> ELSE <<>>)
            \o CoinOf(Slice(string_hex, 2, Len(string_hex)))

\* The parser with the string located from the start of the data instead of
\* from the head of the tuple.
ParseStringFromStart(hex_in, index) ==
    LET hex_data == IF Len(hex_in) >= 2 /\ hex_in[1] = "0" /\ hex_in[2] = "x"
                    THEN hex_in ELSE <<"0", "x">> \o hex_in
        w0 == read_uint(hex_data, 0)
        tuple_offset == w0.v \div 32
        so == read_uint(hex_data, tuple_offset)
        mt == read_uint(hex_data, tuple_offset + 1)
        sd == read_uint(hex_data, tuple_offset + 2)
        ml == read_uint(hex_data, tuple_offset + 3)
        oi == read_uint(hex_data, tuple_offset + 4)
        string_start == so.v \div 32
        sl == read_uint(hex_data, string_start)
        string_data_start == 2 + (string_start + 1) * 64
        string_hex == Slice(hex_data, string_data_start, string_data_start + sl.v * 2)
    IN IF ~w0.ok THEN NoInfo
       ELSE IF ~so.ok \/ ~mt.ok \/ ~sd.ok \/ ~ml.ok \/ ~oi.ok \/ ~sl.ok THEN NoInfo
       ELSE [ok |-> TRUE, index |-> index, coin |-> CoinOf(string_hex),
             margin_table_id |-> mt.v, sz_decimals |-> sd.v, max_leverage |-> ml.v,
             only_isolated |-> (oi.v # 0)]

\* _parse_perp_asset_info: a record with ok = FALSE is the None it returns when
\* any step raised.  The reads happen in the order of the source; the first
\* read_uint of an empty slice ends the parse.
_parse_perp_asset_info(hex_in, index) ==
    LET hex_data == IF Len(hex_in) >= 2 /\ hex_in[1] = "0" /\ hex_in[2] = "x"
                    THEN hex_in ELSE <<"0", "x">> \o hex_in
        w0 == read_uint(hex_data, 0)
        tuple_offset == w0.v \div 32
        so == read_uint(hex_data, tuple_offset)
        mt == read_uint(hex_data, tuple_offset + 1)
        sd == read_uint(hex_data, tuple_offset + 2)
        ml == read_uint(hex_data, tuple_offset + 3)
        oi == read_uint(hex_data, tuple_offset + 4)
        string_start == tuple_offset + (so.v \div 32)
        sl == read_uint(hex_data, string_start)
        string_data_start == 2 + (string_start + 1) * 64
        string_hex == Slice(hex_data, string_data_start, string_data_start + sl.v * 2)
    IN IF ~w0.ok THEN NoInfo
       ELSE IF ~so.ok \/ ~mt.ok \/ ~sd.ok \/ ~ml.ok \/ ~oi.ok \/ ~sl.ok THEN NoInfo
       ELSE [ok |-> TRUE, index |-> index, coin |-> CoinOf(string_hex),
             margin_table_id |-> mt.v, sz_decimals |-> sd.v, max_leverage |-> ml.v,
             only_isolated |-> (oi.v # 0)]

\* What the perpAssetInfo precompile returns: the ABI encoding of the tuple
\* (coin, marginTableId, szDecimals, maxLeverage, onlyIsolated), the tuple's head
\* base bytes into the data and the string soff bytes after the head's start.
PerpAssetInfoBytes(r) ==
    UintWord(r.base) \o Zeros(r.base - 32)
    \o UintWord(r.soff) \o UintWord(r.margin_table_id) \o UintWord(r.sz_decimals)
    \o UintWord(r.max_leverage) \o UintWord(IF r.only_isolated THEN 1 ELSE 0)
    \o Zeros(r.soff - 160)
    \o UintWord(Len(r.coin)) \o PadRight32(r.coin)

CoinSamples == { <<66, 84, 67>>, <<107, 0, 80, 233>>, [i \in 1..33 |-> 64 + (i % 26)] }

\* (base, soff): the canonical layout, a head one word further on, a string one
\* word further on.
LayoutSamples == { <<32, 160>>, <<64, 160>>, <<32, 192>> }

PerpIndexSamples == {0, 224}

Responses ==
    { [coin |-> c, margin_table_id |-> m[1], sz_decimals |-> 5, max_leverage |-> m[2],
       only_isolated |-> m[3], base |-> l[1], soff |-> l[2]] :
         c \in CoinSamples, m \in {<<0, 40, FALSE>>, <<51, 3, TRUE>>}, l \in LayoutSamples }

\* _parse_perp_asset_info is called with the hex of the first cut bytes of a
\* response of the precompile (all of them, or a truncated response).
ParsePerpAssetInfo ==
    /\ pc = "idle"
    /\ \E r \in Responses, index \in PerpIndexSamples :
          LET full == PerpAssetInfoBytes(r)
          IN \E cut \in 0..Len(full) :
                /\ response' = [coin |-> r.coin, margin_table_id |-> r.margin_table_id,
                                sz_decimals |-> r.sz_decimals,
                                max_leverage |-> r.max_leverage,
                                only_isolated |-> r.only_isolated,
                                base |-> r.base, soff |-> r.soff,
                                full |-> full, cut |-> cut, index |-> index]
                /\ hexData' = Hex(SubSeq(full, 1, cut))
                /\ info' = _parse_perp_asset_info(Hex(SubSeq(full, 1, cut)), index)
    /\ pc' = "parsed"
    /\ UNCHANGED codecVars
    /\ UNCHANGED batchVars

ParseReturn ==
    /\ pc = "parsed"
    /\ pc' = "idle"
    /\ response' = NoResponse
    /\ hexData' = <<>>
    /\ info' = NoInfo
    /\ UNCHANGED codecVars
    /\ UNCHANGED batchVars

NextParse ==
    \/ ParsePerpAssetInfo
    \/ ParseReturn

SpecParse == Init /\ [][NextParse]_vars

(***************************************************************************)
(* eth_abi.decode of a tuple of static types, as the batch reader uses it  *)
(***************************************************************************)
\* The value of big-endian bytes: exact below 2^31, Huge above.
BytesValue(b) ==
    LET n == Len(b)
    IN IF \E i \in 1..(n - 4) : b[i] # 0 THEN Huge
       ELSE IF n >= 4 /\ b[n - 3] >= 128 THEN Huge
       ELSE (IF n >= 4 THEN b[n - 3] * 16777216 ELSE 0)
            + (IF n >= 3 THEN b[n - 2] * 65536 ELSE 0)
            + (IF n >= 2 THEN b[n - 1] * 256 ELSE 0)
            + (IF n >= 1 THEN b[n] ELSE 0)

\* One 32-byte word as a value of type t; the padding of the word is checked
\* (zero for unsigned values, the sign for signed ones, 0 or 1 for a bool).
DecodeWord(t, w) ==
    CASE t = "bool" ->
            IF w = Zeros(31) \o <<0>> THEN [ok |-> TRUE, v |-> FALSE]
            ELSE IF w = Zeros(31) \o <<1>> THEN [ok |-> TRUE, v |-> TRUE]
            ELSE [ok |-> FALSE, v |-> FALSE]
      [] t \in {"uint32", "uint64"} ->
            LET size == IF t = "uint32" THEN 4 ELSE 8
            IN IF SubSeq(w, 1, 32 - size) = Zeros(32 - size)
               THEN [ok |-> TRUE, v |-> BytesValue(SubSeq(w, 33 - size, 32))]
               ELSE [ok |-> FALSE, v |-> 0]
      [] t = "int64" ->
            IF w[25] < 128 /\ SubSeq(w, 1, 24) = Zeros(24)
            THEN [ok |-> TRUE, v |-> BytesValue(SubSeq(w, 25, 32))]
            ELSE IF w[25] >= 128 /\ SubSeq(w, 1, 24) = [i \in 1..24 |-> 255]
            THEN [ok |-> TRUE,
                  v |-> 0 - (1 + BytesValue([i \in 1..8 |-> 255 - w[24 + i]]))]
            ELSE [ok |-> FALSE, v |-> 0]

\* decode reading zeros where the data ends, instead of raising.
DecodeZeroFilled(types, data) ==
    LET n == Len(types)
        filled == data \o Zeros(32 * n - Len(data))
        word(k) == DecodeWord(types[k], SubSeq(filled, 32 * k - 31, 32 * k))
    IN IF \E k \in 1..n : ~word(k).ok
       THEN [ok |-> FALSE, values |-> <<>>, err |-> "NonEmptyPaddingBytes"]
       ELSE [ok |-> TRUE, values |-> [k \in 1..n |-> word(k).v], err |-> ""]

\* decode(types, data): InsufficientDataBytes when a word is missing,
\* NonEmptyPaddingBytes when a word is no value of its type; bytes after the last
\* word are ignored.
decode(types, data) ==
    LET n == Len(types)
        word(k) == DecodeWord(types[k], SubSeq(data, 32 * k - 31, 32 * k))
    IN IF Len(data) < 32 * n
       THEN IF \E k \in 1..(Len(data) \div 32) : ~word(k).ok
            THEN [ok |-> FALSE, values |-> <<>>, err |-> "NonEmptyPaddingBytes"]
            ELSE [ok |-> FALSE, values |-> <<>>, err |-> "InsufficientDataBytes"]
       ELSE IF \E k \in 1..n : ~word(k).ok
       THEN [ok |-> FALSE, values |-> <<>>, err |-> "NonEmptyPaddingBytes"]
       ELSE [ok |-> TRUE, values |-> [k \in 1..n |-> word(k).v], err |-> ""]

(***************************************************************************)
(* The precompiles and Multicall3, as far as the batch reader sees them    *)
(***************************************************************************)
\* A signed value as a 32-byte two's complement word.
IntWord(v) ==
    IF v >= 0 THEN UintWord(v)
    ELSE [i \in 1..32 |-> 255 - UintWord(0 - v - 1)[i]]

\* What the chain holds for a logical index: mark price, position, balance, info.
MarkPxOf(idx) == 100000 + idx

PositionOf(idx) ==
    [szi |-> (idx % 3) - 1, entry_ntl |-> 1000 + idx, isolated_raw_usd |-> 0 - idx,
     leverage |-> 20, is_isolated |-> (idx % 2 = 1)]

SpotBalanceOf(idx) ==
    [total |-> (idx % 2) * (500 + idx), hold |-> idx, entry_ntl |-> 7]

PerpInfoOf(idx) ==
    [coin |-> IF idx = 0 THEN <<66, 84, 67>> ELSE <<80, 48 + (idx % 10)>>,
     margin_table_id |-> idx, sz_decimals |-> 5, max_leverage |-> 40,
     only_isolated |-> (idx % 2 = 1), base |-> 32, soff |-> 160]

\* The return data of a precompile for a logical index.
ReturnDataOf(kind, idx) ==
    CASE kind = "markPx" -> UintWord(MarkPxOf(idx))
      [] kind = "position" ->
            LET p == PositionOf(idx)
            IN IntWord(p.szi) \o UintWord(p.entry_ntl) \o IntWord(p.isolated_raw_usd)
               \o UintWord(p.leverage) \o UintWord(IF p.is_isolated THEN 1 ELSE 0)
      [] kind = "spotBalance" ->
            LET b == SpotBalanceOf(idx)
            IN UintWord(b.total) \o UintWord(b.hold) \o UintWord(b.entry_ntl)
      [] kind = "perpAssetInfo" -> PerpAssetInfoBytes(PerpInfoOf(idx))

\* The shortest payload the reader accepts for a kind.
MinLen(kind) ==
    CASE kind = "position" -> 32 [] kind = "spotBalance" -> 24 [] OTHER -> 1

\* One element of an aggregate3 result, by what happened to the call:
\*   ok        the call succeeded and returned the precompile's data
\*   long      the same with 32 more bytes
\*   fail      the call failed and returned nothing
\*   failData  the call failed and returned (revert) data that looks like a result
\*   empty     the call succeeded with no data
\*   short     the call succeeded with one byte less than the kind's minimum
\*   cut       the call succeeded with the data cut to the kind's minimum length
\*             (for perpAssetInfo: cut in the middle of the first head word)
\*   badWord   the call succeeded with a last word that is no value of its type
Element(kind, b, idx) ==
    LET data == ReturnDataOf(kind, idx)
    IN CASE b = "ok"       -> [success |-> TRUE, returnData |-> data]
         [] b = "long"     -> [success |-> TRUE, returnData |-> data \o Zeros(32)]
         [] b = "fail"     -> [success |-> FALSE, returnData |-> <<>>]
         [] b = "failData" -> [success |-> FALSE, returnData |-> data]
         [] b = "empty"    -> [success |-> TRUE, returnData |-> <<>>]
         [] b = "short"    -> [success |-> TRUE,
                               returnData |-> SubSeq(data, 1, MinLen(kind) - 1)]
         [] b = "cut"      -> [success |-> TRUE,
                               returnData |-> SubSeq(data, 1,
                                   IF kind = "perpAssetInfo" THEN 48 ELSE MinLen(kind))]
         [] b = "badWord"  -> [success |-> TRUE,
                               returnData |-> SubSeq(data, 1, Len(data) - 32)
                                              \o <<1>> \o Zeros(30) \o <<2>>]

(***************************************************************************)
(* HyperCoreMulticall                                                      *)
(***************************************************************************)
total_perps == 225
perp_batch_size == 200
total_tokens == 425
token_batch_size == 300

PRECOMPILES(name) ==
    CASE name = "position"      -> "0x0000000000000000000000000000000000000800"
      [] name = "spotBalance"   -> "0x0000000000000000000000000000000000000801"
      [] name = "markPx"        -> "0x0000000000000000000000000000000000000806"
      [] name = "perpAssetInfo" -> "0x000000000000000000000000000000000000080a"

\* test_user of main(), as the address argument of the position and balance calls.
TestUser ==
    <<"0", "x">> \o <<"3", "3", "5", "7", "8", "3", "7", "7", "D", "d",
                      "2", "D", "8", "5", "0", "D", "b", "9", "a", "4",
                      "F", "E", "f", "3", "8", "f", "5", "a", "9", "1",
                      "9", "0", "b", "b", "9", "4", "E", "8", "2", "3">>

\* range(n) as a list.
Range(n) == [i \in 1..n |-> i - 1]

\* chunk_list whose slices are one element short.
ChunkListShortSlices(lst, chunk_size) ==
    IF chunk_size = 0 THEN [ok |-> FALSE, value |-> <<>>, err |-> "ValueError"]
    ELSE IF chunk_size < 0 THEN [ok |-> TRUE, value |-> <<>>, err |-> ""]
    ELSE [ok |-> TRUE,
          value |-> [k \in 1..((Len(lst) + chunk_size - 1) \div chunk_size) |->
                       Slice(lst, (k - 1) * chunk_size, k * chunk_size - 1)],
          err |-> ""]

\* chunk_list: one slice lst[i:i + chunk_size] for each i of
\* range(0, len(lst), chunk_size); range raises ValueError for a step of 0 and
\* is empty for a negative one.
chunk_list(lst, chunk_size) ==
    IF chunk_size = 0 THEN [ok |-> FALSE, value |-> <<>>, err |-> "ValueError"]
    ELSE IF chunk_size < 0 THEN [ok |-> TRUE, value |-> <<>>, err |-> ""]
    ELSE [ok |-> TRUE,
          value |-> [k \in 1..((Len(lst) + chunk_size - 1) \div chunk_size) |->
                       Slice(lst, (k - 1) * chunk_size, (k - 1) * chunk_size + chunk_size)],
          err |-> ""]

\* _encode_call: (target, allowFailure = True, calldata); the checksum form of
\* the target is the same address.
_encode_call(target, calldata) ==
    [target |-> target, allowFailure |-> TRUE, callData |-> calldata]

\* The precompile a batch operation queries.
KindOf(operation) ==
    CASE operation \in {"batch_get_mark_prices", "get_all_mark_prices"} -> "markPx"
      [] operation \in {"batch_get_positions", "get_all_positions"} -> "position"
      [] operation \in {"batch_get_spot_balances", "get_all_spot_balances"} -> "spotBalance"
      [] operation = "batch_get_perp_asset_info" -> "perpAssetInfo"

\* The calldata of the call for one index.
CallDataOf(kind, idx) ==
    CASE kind = "markPx" -> encode(<<"uint32">>, <<idx>>)
      [] kind = "perpAssetInfo" -> encode(<<"uint32">>, <<idx>>)
      [] kind = "position" ->
            encode(<<"address", "uint16">>, <<Checksummed(TestUser), idx>>)
      [] kind = "spotBalance" ->
            encode(<<"address", "uint64">>, <<Checksummed(TestUser), idx>>)

\* The calls list of a batch operation: one call per index, in the order of the
\* indices; or the exception encode raised for an index.
BuildCalls(kind, indices) ==
    LET Collect(cd) ==
            IF \E i \in 1..Len(cd) : ~cd[i].ok
            THEN [ok |-> FALSE, value |-> <<>>, err |-> "ValueOutOfBounds"]
            ELSE [ok |-> TRUE,
                  value |-> [i \in 1..Len(cd) |->
                               _encode_call(PRECOMPILES(kind), cd[i].bytes)],
                  err |-> ""]
    IN Collect([i \in 1..Len(indices) |-> CallDataOf(kind, indices[i])])

\* enumerate(results): each element with its position i (from 0).
Enumerate(rs) ==
    [k \in 1..Len(rs) |-> [i |-> k - 1, success |-> rs[k].success,
                           return_data |-> rs[k].returnData]]

MakePosition(perp_index, v) ==
    [perp_index |-> perp_index, szi |-> v[1], entry_ntl |-> v[2],
     isolated_raw_usd |-> v[3], leverage |-> v[4], is_isolated |-> v[5]]

MakeSpotBalance(token_index, v) ==
    [token_index |-> token_index, total |-> v[1], hold |-> v[2], entry_ntl |-> v[3]]

PositionTypes == <<"int64", "uint64", "int64", "uint32", "bool">>
SpotBalanceTypes == <<"uint64", "uint64", "uint64">>

\* The loop of batch_get_positions without the test of success.
PositionsLoopIgnoringSuccess(perp_indices, rs) ==
    LET Yields(e) == /\ Len(e.return_data) >= 32
                     /\ decode(PositionTypes, e.return_data).ok
                     /\ e.i < Len(perp_indices)
        Made(e) == MakePosition(perp_indices[e.i + 1],
                                decode(PositionTypes, e.return_data).values)
        Appended(kept) == [k \in 1..Len(kept) |-> Made(kept[k])]
    IN [ok |-> TRUE,
        value |-> Appended(SelectSeq(Enumerate(rs), Yields)),
        err |-> ""]

\* The loop of batch_get_positions over enumerate(results): an element yields a
\* Position when it succeeded, holds 32 bytes or more, and neither decode nor
\* perp_indices[i] raises inside the try; every other element is passed over.
PositionsLoop(perp_indices, rs) ==
    LET Yields(e) == /\ e.success
                     /\ Len(e.return_data) >= 32
                     /\ decode(PositionTypes, e.return_data).ok
                     /\ e.i < Len(perp_indices)
        Made(e) == MakePosition(perp_indices[e.i + 1],
                                decode(PositionTypes, e.return_data).values)
        Appended(kept) == [k \in 1..Len(kept) |-> Made(kept[k])]
    IN [ok |-> TRUE,
        value |-> Appended(SelectSeq(Enumerate(rs), Yields)),
        err |-> ""]

\* The loop of batch_get_spot_balances taking the index of a record from the
\* number of records made so far instead of from the element's position.
SpotBalancesLoopByCount(token_indices, rs) ==
    LET Yields(e) == /\ e.success
                     /\ Len(e.return_data) >= 24
                     /\ decode(SpotBalanceTypes, e.return_data).ok
                     /\ e.i < Len(token_indices)
        Appended(kept) ==
            [k \in 1..Len(kept) |->
                MakeSpotBalance(token_indices[k],
                                decode(SpotBalanceTypes, kept[k].return_data).values)]
    IN [ok |-> TRUE,
        value |-> Appended(SelectSeq(Enumerate(rs), Yields)),
        err |-> ""]

\* The same loop for batch_get_spot_balances, with 24 bytes as the least length.
SpotBalancesLoop(token_indices, rs) ==
    LET Yields(e) == /\ e.success
                     /\ Len(e.return_data) >= 24
                     /\ decode(SpotBalanceTypes, e.return_data).ok
                     /\ e.i < Len(token_indices)
        Made(e) == MakeSpotBalance(token_indices[e.i + 1],
                                   decode(SpotBalanceTypes, e.return_data).values)
        Appended(kept) == [k \in 1..Len(kept) |-> Made(kept[k])]
    IN [ok |-> TRUE,
        value |-> Appended(SelectSeq(Enumerate(rs), Yields)),
        err |-> ""]

\* The loop of batch_get_perp_asset_info: a successful, non-empty element is
\* parsed and appended unless the parser returned None.  perp_indices[i] is
\* outside any try.
PerpAssetInfoLoop(perp_indices, rs) ==
    LET Tried(e) == e.success /\ Len(e.return_data) > 0
        Parsed(e) == _parse_perp_asset_info(Hex(e.return_data), perp_indices[e.i + 1])
        IsInfo(r) == r.ok
        Loop(tried) ==
            IF \E k \in 1..Len(tried) : tried[k].i >= Len(perp_indices)
            THEN [ok |-> FALSE, value |-> <<>>, err |-> "IndexError"]
            ELSE [ok |-> TRUE,
                  value |-> SelectSeq([k \in 1..Len(tried) |-> Parsed(tried[k])], IsInfo),
                  err |-> ""]
    IN Loop(SelectSeq(Enumerate(rs), Tried))

\* The loop of batch_get_mark_prices: the dict gets prices[perp_indices[i]] for
\* each successful, non-empty element, a later element overwriting an earlier
\* one with the same index.  decode and perp_indices[i] are outside any try: the
\* first element that makes one of them raise ends the operation.
MarkPricesLoop(perp_indices, rs) ==
    LET Tried(e) == e.success /\ Len(e.return_data) > 0
        Assigned(e, d) ==
            IF ~d.ok THEN [ok |-> FALSE, err |-> d.err, key |-> 0, px |-> 0]
            ELSE IF e.i >= Len(perp_indices)
            THEN [ok |-> FALSE, err |-> "IndexError", key |-> 0, px |-> 0]
            ELSE [ok |-> TRUE, err |-> "", key |-> perp_indices[e.i + 1],
                  px |-> d.values[1]]
        Step(e) == Assigned(e, decode(<<"uint64">>, e.return_data))
        Loop(steps) ==
            IF \E k \in 1..Len(steps) : ~steps[k].ok
            THEN [ok |-> FALSE, value |-> <<>>,
                  err |-> steps[CHOOSE k \in 1..Len(steps) :
                                   ~steps[k].ok /\ \A j \in 1..(k - 1) : steps[j].ok].err]
            ELSE [ok |-> TRUE,
                  value |-> [key \in {steps[k].key : k \in 1..Len(steps)} |->
                               steps[CHOOSE k \in 1..Len(steps) :
                                        /\ steps[k].key = key
                                        /\ \A j \in (k + 1)..Len(steps) :
                                              steps[j].key # key].px],
                  err |-> ""]
        Steps(tried) == [k \in 1..Len(tried) |-> Step(tried[k])]
    IN Loop(Steps(SelectSeq(Enumerate(rs), Tried)))

\* What a batch_get_* operation makes of the results of its aggregate3 call.
ProcessResults(operation, indices, rs) ==
    CASE KindOf(operation) = "markPx" -> MarkPricesLoop(indices, rs)
      [] KindOf(operation) = "position" -> PositionsLoop(indices, rs)
      [] KindOf(operation) = "spotBalance" -> SpotBalancesLoop(indices, rs)
      [] KindOf(operation) = "perpAssetInfo" -> PerpAssetInfoLoop(indices, rs)

\* A merge that keeps the records of the latest chunk only.
MergeReplacing(operation, all, new) == new

\* dict.update for the prices, list.extend for positions and balances.
Merge(operation, all, new) ==
    IF KindOf(operation) = "markPx"
    THEN [key \in (DOMAIN all) \cup (DOMAIN new) |->
             IF key \in DOMAIN new THEN new[key] ELSE all[key]]
    ELSE all \o new

\* The filter keeping the long positions only.
GetPositivePositions(all_positions) ==
    SelectSeq(all_positions, LAMBDA p : p.szi > 0)

\* get_non_zero_positions, from the list get_all_positions returned to it.
get_non_zero_positions(all_positions) ==
    SelectSeq(all_positions, LAMBDA p : p.szi # 0)

\* get_non_zero_balances, from the list get_all_spot_balances returned to it.
get_non_zero_balances(all_balances) ==
    SelectSeq(all_balances, LAMBDA b : b.total # 0)

(***************************************************************************)
(* The client of the batch reader                                          *)
(***************************************************************************)
\* A batch_get_* operation is called directly with up to MaxBatch indices;
\* chunk_list with lists of up to MaxListLen elements and sizes up to MaxChunk.
MaxBatch == 3
MaxListLen == 7
MaxChunk == 4

IndexSamples == {0, 5}

\* The index lists given to batch_get_*: indices may repeat; 70000 is no uint16.
BatchLists == SeqsUpTo(IndexSamples, MaxBatch) \cup {<<5, 70000>>}

BatchOps == {"batch_get_mark_prices", "batch_get_positions",
             "batch_get_spot_balances", "batch_get_perp_asset_info"}

GetAllOps == {"get_all_mark_prices", "get_all_positions", "get_all_spot_balances"}

\* How a call of each kind may be answered.
Behaviours(kind) ==
    CASE kind = "markPx" -> {"ok", "long", "fail", "failData", "empty", "cut"}
      [] kind = "position" -> {"ok", "fail", "failData", "short", "cut", "badWord"}
      [] kind = "spotBalance" -> {"ok", "fail", "failData", "short", "cut"}
      [] kind = "perpAssetInfo" -> {"ok", "fail", "failData", "empty", "cut"}

\* The answers to a whole chunk of get_all_*: every call answered "ok" but the
\* first, the last, or all of them.
Patterns(kind) ==
    {[at |-> "none", b |-> "ok"], [at |-> "all", b |-> "fail"]}
    \cup {[at |-> a, b |-> b] : a \in {"first", "last"}, b \in Behaviours(kind) \ {"ok"}}

PatternBehaviours(pattern, n) ==
    [i \in 1..n |->
        IF \/ pattern.at = "all"
           \/ pattern.at = "first" /\ i = 1
           \/ pattern.at = "last" /\ i = n
        THEN pattern.b ELSE "ok"]

\* The results Multicall3 returns for the calls of indices, answered as bs says:
\* as many as the calls, in their order.
ResultsFor(kind, indices, bs) ==
    [i \in 1..Len(indices) |-> Element(kind, bs[i], indices[i])]

UniverseOf(operation) ==
    IF operation = "get_all_spot_balances" THEN total_tokens ELSE total_perps

BatchSizeOf(operation) ==
    IF operation = "get_all_spot_balances" THEN token_batch_size ELSE perp_batch_size

\* chunk_list(lst, chunk_size) called on its own.
ChunkList ==
    /\ pc = "idle"
    /\ \E n \in 0..MaxListLen, chunk_size \in (0 - 1)..MaxChunk :
       \E l \in {Range(n), [i \in 1..n |-> 5]} :
       \E r \in {chunk_list(l, chunk_size)} :
             /\ op' = "chunk_list"
             /\ req' = l
             /\ batch_size' = chunk_size
             /\ out' = r.value
             /\ err' = r.err
             /\ pc' = IF r.ok THEN "done" ELSE "raised"
    /\ UNCHANGED <<calls, results, chunks, ci, issued, acc, behav>>
    /\ UNCHANGED codecVars
    /\ UNCHANGED parseVars

\* batch_get_*(indices) up to its aggregate3 call: the calls are built and
\* submitted, or encode raises.
BatchGet ==
    /\ pc = "idle"
    /\ \E operation \in BatchOps, indices \in BatchLists :
       \E c \in {BuildCalls(KindOf(operation), indices)} :
             /\ op' = operation
             /\ req' = indices
             /\ calls' = c.value
             /\ err' = c.err
             /\ pc' = IF c.ok THEN "awaiting" ELSE "raised"
    /\ UNCHANGED <<results, out, chunks, ci, issued, acc, batch_size, behav>>
    /\ UNCHANGED codecVars
    /\ UNCHANGED parseVars

\* get_all_* up to the aggregate3 call of its first chunk.
GetAll ==
    /\ pc = "idle"
    /\ \E operation \in GetAllOps :
       \E cs \in {chunk_list(Range(UniverseOf(operation)), BatchSizeOf(operation)).value} :
       \E c \in {BuildCalls(KindOf(operation), cs[1])} :
             /\ op' = operation
             /\ batch_size' = BatchSizeOf(operation)
             /\ chunks' = cs
             /\ req' = cs[1]
             /\ calls' = c.value
             /\ issued' = <<Len(c.value)>>
    /\ ci' = 0
    /\ acc' = <<>>
    /\ pc' = "awaiting"
    /\ UNCHANGED <<results, out, err, behav>>
    /\ UNCHANGED codecVars
    /\ UNCHANGED parseVars

\* The aggregate3 call of a batch_get_* called directly returns; the loop over
\* the results runs and the operation returns or raises.
BatchResultsArrive ==
    /\ pc = "awaiting"
    /\ op \in BatchOps
    /\ \E bs \in [1..Len(calls) -> Behaviours(KindOf(op))] :
       \E rs \in {ResultsFor(KindOf(op), req, bs)} :
       \E r \in {ProcessResults(op, req, rs)} :
             /\ results' = rs
             /\ behav' = <<bs>>
             /\ out' = r.value
             /\ err' = r.err
             /\ pc' = IF r.ok THEN "done" ELSE "raised"
    /\ UNCHANGED <<op, req, calls, chunks, ci, issued, acc, batch_size>>
    /\ UNCHANGED codecVars
    /\ UNCHANGED parseVars

\* The aggregate3 call for a chunk of get_all_* returns: batch_get_* finishes,
\* its result is merged, and the loop goes on to the call of the next chunk or
\* get_all_* returns; an exception of batch_get_* leaves get_all_* as it is.
ChunkResultsArrive ==
    /\ pc = "awaiting"
    /\ op \in GetAllOps
    /\ \E pattern \in Patterns(KindOf(op)) :
       \E bs \in {PatternBehaviours(pattern, Len(calls))} :
       \E rs \in {ResultsFor(KindOf(op), req, bs)} :
       \E r \in {ProcessResults(op, req, rs)} :
             /\ results' = rs
             /\ behav' = Append(behav, bs)
             /\ IF ~r.ok
                THEN /\ err' = r.err
                     /\ pc' = "raised"
                     /\ UNCHANGED <<req, calls, out, ci, issued, acc>>
                ELSE /\ acc' = Merge(op, acc, r.value)
                     /\ ci' = ci + 1
                     /\ err' = ""
                     /\ IF ci + 1 < Len(chunks)
                        THEN \E c \in {BuildCalls(KindOf(op), chunks[ci + 2])} :
                             /\ req' = chunks[ci + 2]
                             /\ calls' = c.value
                             /\ issued' = Append(issued, Len(c.value))
                             /\ pc' = "awaiting"
                             /\ UNCHANGED out
                        ELSE /\ out' = acc'
                             /\ pc' = "done"
                             /\ UNCHANGED <<req, calls, issued>>
    /\ UNCHANGED <<op, chunks, batch_size>>
    /\ UNCHANGED codecVars
    /\ UNCHANGED parseVars

\* get_non_zero_positions / get_non_zero_balances: the get_all_* it called has
\* returned to it; it filters the list and returns.  acc keeps the full list.
GetNonZero ==
    /\ pc = "done"
    /\ \/ /\ op = "get_all_positions"
          /\ op' = "get_non_zero_positions"
          /\ out' = get_non_zero_positions(out)
       \/ /\ op = "get_all_spot_balances"
          /\ op' = "get_non_zero_balances"
          /\ out' = get_non_zero_balances(out)
    /\ UNCHANGED <<pc, req, calls, results, err, chunks, ci, issued, acc, batch_size, behav>>
    /\ UNCHANGED codecVars
    /\ UNCHANGED parseVars

\* A failure of the aggregate3 call that is caught: the operation returns what
\* it has merged so far.
Aggregate3FailsAbsorbed ==
    /\ pc = "awaiting"
    /\ out' = acc
    /\ pc' = "done"
    /\ UNCHANGED <<op, req, calls, results, err, chunks, ci, issued, acc, batch_size, behav>>
    /\ UNCHANGED codecVars
    /\ UNCHANGED parseVars

\* The aggregate3 call itself fails: the exception leaves batch_get_* and
\* get_all_*, neither of which catches it.
Aggregate3Fails ==
    /\ pc = "awaiting"
    /\ err' = "TransportError"
    /\ pc' = "raised"
    /\ UNCHANGED <<op, req, calls, results, out, chunks, ci, issued, acc, batch_size, behav>>
    /\ UNCHANGED codecVars
    /\ UNCHANGED parseVars

\* The caller has its result, or its exception.
BatchReturn ==
    /\ pc \in {"done", "raised"}
    /\ pc' = "idle"
    /\ op' = "none"
    /\ req' = <<>>
    /\ calls' = <<>>
    /\ results' = <<>>
    /\ out' = <<>>
    /\ err' = ""
    /\ chunks' = <<>>
    /\ ci' = 0
    /\ issued' = <<>>
    /\ acc' = <<>>
    /\ batch_size' = 0
    /\ behav' = <<>>
    /\ UNCHANGED codecVars
    /\ UNCHANGED parseVars

NextBatch ==
    \/ ChunkList
    \/ BatchGet
    \/ GetAll
    \/ BatchResultsArrive
    \/ ChunkResultsArrive
    \/ GetNonZero
    \/ Aggregate3Fails
    \/ BatchReturn

SpecBatch == Init /\ [][NextBatch]_vars

Next ==
    \/ NextCodec
    \/ NextParse
    \/ NextBatch

Spec == Init /\ [][Next]_vars

(***************************************************************************)
(* The parameter dataclasses: each variant's fields in declaration order,  *)
(* with the type its declaration states.                                   *)
(***************************************************************************)
F(name, type) == [name |-> name, type |-> type]

DeclaredFields(kind) ==
    CASE kind = LIMIT_ORDER ->
            <<F("asset", "uint32"), F("is_buy", "bool"), F("limit_px", "uint64"), F("sz", "uint64"), F("reduce_only", "bool"), F("encoded_tif", "uint8"), F("cloid", "uint128")>>
      [] kind = VAULT_TRANSFER ->
            <<F("vault", "address"), F("is_deposit", "bool"), F("usd", "uint64")>>
      [] kind = TOKEN_DELEGATE ->
            <<F("validator", "address"), F("wei", "uint64"), F("is_undelegate", "bool")>>
      [] kind = STAKING_DEPOSIT ->
            <<F("wei", "uint64")>>
      [] kind = STAKING_WITHDRAW ->
            <<F("wei", "uint64")>>
      [] kind = SPOT_SEND ->
            <<F("destination", "address"), F("token", "uint64"), F("wei", "uint64")>>
      [] kind = USD_CLASS_TRANSFER ->
            <<F("ntl", "uint64"), F("to_perp", "bool")>>
      [] kind = FINALIZE_EVM_CONTRACT ->
            <<F("token", "uint64"), F("variant", "uint8"), F("create_nonce", "uint64")>>
      [] kind = ADD_API_WALLET ->
            <<F("wallet", "address"), F("name", "string")>>
      [] kind = CANCEL_ORDER_BY_OID ->
            <<F("asset", "uint32"), F("oid", "uint64")>>
      [] kind = CANCEL_ORDER_BY_CLOID ->
            <<F("asset", "uint32"), F("cloid", "uint128")>>
      [] kind = APPROVE_BUILDER_FEE ->
            <<F("max_fee_rate", "uint64"), F("builder", "address")>>
      [] kind = SEND_ASSET ->
            <<F("dest", "address"), F("sub_account", "address"), F("src_dex", "uint32"), F("dest_dex", "uint32"), F("token", "uint64"), F("wei", "uint64")>>
      [] kind = REFLECT_EVM_SUPPLY ->
            <<F("token", "uint64"), F("wei", "uint64"), F("is_mint", "bool")>>
      [] kind = BORROW_LEND_OP ->
            <<F("operation", "uint8"), F("token", "uint64"), F("wei", "uint64")>>

(***************************************************************************)
(* Properties of the action codec                                          *)
(***************************************************************************)
\* The value a 32-byte word holds when its upper 28 bytes are zero.
WordValue(w) == w[29] * 16777216 + w[30] * 65536 + w[31] * 256 + w[32]

IsSmallWord(w) == Len(w) = 32 /\ SubSeq(w, 1, 28) = Zeros(28) /\ w[29] < 128

\* The k-th 32-byte word (k = 1, 2, ...) of the parameter bytes of an encoded action.
ParamWord(b, k) == SubSeq(b, 4 + 32 * (k - 1) + 1, 4 + 32 * k)

\* A builder's output was decoded.
DecodedBuilt == pc = "decoded" /\ action.kind # 0

\* Foreign raw bytes that start with the header of action id.
StartsWithHeader(id) ==
    /\ pc = "decoded"
    /\ action.kind = 0
    /\ ~decIn.isStr
    /\ Len(decIn.bytes) >= 4
    /\ SubSeq(decIn.bytes, 1, 4) = <<1, 0, 0, id>>

\* C1: decoding what a builder returned gives version 0x01 and the builder's
\* action id, for each of the 15 builders and whatever the parameters; and any
\* bytes that start with the header of an id in 1..15 decode to that id.
C1_HeaderRoundTrip ==
    /\ DecodedBuilt =>
          /\ decoded.ok
          /\ decoded.version = 1
          /\ decoded.action_id = action.kind
    /\ \A id \in 1..15 :
          StartsWithHeader(id) =>
             decoded.ok /\ decoded.version = 1 /\ decoded.action_id = id

C1_Witness ==
    /\ DecodedBuilt
    /\ action.kind = BORROW_LEND_OP
    /\ decIn.isStr
    /\ decoded.ok
    /\ decoded.action_id = 15

\* An AddApiWallet action was built.
BuiltApiWallet == pc = "built" /\ action.kind = ADD_API_WALLET /\ encoded.ok

Bot1 == <<98, 111, 116, 49>>

\* The layout of the string field of an AddApiWallet encoding whose offset word
\* holds off: the length word sits off bytes after the header and holds the
\* number of bytes of the name, the name's bytes follow, and zero bytes fill up
\* to the next 32-byte boundary, where the encoding ends.
StringFieldAt(b, off, nameBytes) ==
    LET n == Len(nameBytes)
        padded == 32 * ((n + 31) \div 32)
    IN /\ IsSmallWord(ParamWord(b, 2))
       /\ WordValue(ParamWord(b, 2)) = off
       /\ Len(b) = 4 + off + 32 + padded
       /\ IsSmallWord(SubSeq(b, 4 + off + 1, 4 + off + 32))
       /\ WordValue(SubSeq(b, 4 + off + 1, 4 + off + 32)) = n
       /\ SubSeq(b, 4 + off + 32 + 1, 4 + off + 32 + n) = nameBytes
       /\ SubSeq(b, 4 + off + 32 + n + 1, Len(b)) = Zeros(padded - n)

\* The UTF-8 bytes of the sample names, written out.
NameBytes(name) == IF name = <<233, 49>> THEN <<195, 169, 49>> ELSE name

\* C2 as claimed: the offset word of the string field holds the length of the one
\* static head word before it, so that "bot1" has offset 0x20, length 4 and the
\* data 626f7431 followed by 28 zero bytes.
C2_AsClaimed ==
    BuiltApiWallet =>
       /\ StringFieldAt(encoded.bytes, 32, NameBytes(action.params.name))
       /\ action.params.name = Bot1 =>
             /\ WordValue(ParamWord(encoded.bytes, 2)) = 32
             /\ SubSeq(encoded.bytes, 4 + 32 + 1, Len(encoded.bytes))
                   = Zeros(31) \o <<4>> \o <<98, 111, 116, 49>> \o Zeros(28)

\* C2, amended: the offset word holds 0x40, the length of the whole head of the
\* tuple (the wallet's word and the offset word itself); the length word holds
\* the number of UTF-8 bytes of the name and the data is zero-padded to a
\* 32-byte boundary.  "bot1" has offset 0x40, length 4 and the data 626f7431
\* followed by 28 zero bytes.
C2_ApiWalletLayout ==
    BuiltApiWallet =>
       /\ SubSeq(encoded.bytes, 1, 4) = <<1, 0, 0, 9>>
       /\ StringFieldAt(encoded.bytes, 64, NameBytes(action.params.name))
       /\ action.params.name = Bot1 =>
             /\ WordValue(ParamWord(encoded.bytes, 2)) = 64
             /\ SubSeq(encoded.bytes, 4 + 64 + 1, Len(encoded.bytes))
                   = Zeros(31) \o <<4>> \o <<98, 111, 116, 49>> \o Zeros(28)

C2_Witness ==
    /\ BuiltApiWallet
    /\ action.params.name = Bot1
    /\ Len(encoded.bytes) = 4 + 128

\* The 40 digits of an address in lower case.
AddressDigits(a) ==
    LET d == IF Len(a) = 42 THEN SubSeq(a, 3, 42) ELSE a
    IN [i \in 1..40 |-> HexChars[HexVal(d[i]) + 1]]

\* Word w holds value v of the stated type, big-endian and left-zero-padded.
WordHolds(type, v, w) ==
    CASE type = "bool" -> w = Zeros(31) \o <<IF v THEN 1 ELSE 0>>
      [] type = "address" ->
            /\ Len(w) = 32
            /\ SubSeq(w, 1, 12) = Zeros(12)
            /\ Hex(SubSeq(w, 13, 32)) = AddressDigits(v)
      [] OTHER -> IsSmallWord(w) /\ WordValue(w) = v

\* An action of a variant with static fields only was built.
BuiltStatic == pc = "built" /\ action.kind \notin {0, ADD_API_WALLET} /\ encoded.ok

\* C3: the output of a builder of a static-field-only variant is the 4-byte
\* header and one 32-byte word per declared field, in declaration order, each
\* word holding its field big-endian and left-zero-padded; usd_class_transfer
\* of ntl = 1000000, to_perp = True is 01 00 00 07, a word of value 0x0F4240 and
\* a word of value 1.
C3_StaticLayout ==
    BuiltStatic =>
       LET fields == DeclaredFields(action.kind)
           b == encoded.bytes
       IN /\ Len(b) = 4 + 32 * Len(fields)
          /\ SubSeq(b, 1, 4) = <<1, 0, 0, action.kind>>
          /\ \A k \in 1..Len(fields) :
                WordHolds(fields[k].type, action.params[fields[k].name], ParamWord(b, k))
          /\ (action.kind = USD_CLASS_TRANSFER
              /\ action.params = [ntl |-> 1000000, to_perp |-> TRUE]) =>
                b = <<1, 0, 0, 7>> \o Zeros(29) \o <<15, 66, 64>> \o Zeros(31) \o <<1>>

C3_Witness ==
    /\ BuiltStatic
    /\ action.kind = USD_CLASS_TRANSFER
    /\ action.params = [ntl |-> 1000000, to_perp |-> TRUE]
    /\ Len(encoded.bytes) = 68

\* The number of bytes a decode_action argument supplies: the bytes themselves,
\* or two hex digits a byte after an optional 0x.
IsHexString(str) ==
    LET d == IF Len(str) >= 2 /\ str[1] = "0" /\ str[2] = "x"
             THEN SubSeq(str, 3, Len(str)) ELSE str
    IN Len(d) % 2 = 0 /\ \A i \in 1..Len(d) : d[i] \in {HexChars[v] : v \in 1..16}

SuppliedBytes(data) ==
    IF ~data.isStr THEN Len(data.bytes)
    ELSE IF Len(data.str) >= 2 /\ data.str[2] = "x" THEN (Len(data.str) - 2) \div 2
    ELSE Len(data.str) \div 2

WellFormedInput == ~decIn.isStr \/ IsHexString(decIn.str)

\* C10: decode_action raises, and returns nothing, when it is given fewer than 4
\* bytes, as raw bytes or as a hex string with or without 0x (the exception is
\* Python's IndexError); given 4 bytes or more it returns a result.
C10_ShortInputFails ==
    (pc = "decoded" /\ WellFormedInput) =>
       IF SuppliedBytes(decIn) < 4
       THEN ~decoded.ok /\ decoded.err = "IndexError" /\ decoded.params = <<>>
       ELSE decoded.ok /\ decoded.err = ""

C10_Witness ==
    /\ pc = "decoded"
    /\ decIn.isStr
    /\ Len(decIn.str) = 8
    /\ decIn.str[2] = "x"
    /\ ~decoded.ok
    /\ decoded.err = "IndexError"

\* The action encoded again from a decode_action result: the header of the
\* decoded action id, then the bytes of the decoded params string after its 0x.
ReEncoded(d) ==
    _concat_bytes(_encode_header(d.action_id),
                  fromhex(SubSeq(d.params, 3, Len(d.params))).bytes)

\* A builder's output for a variant with static fields only was decoded.
DecodedStatic == DecodedBuilt /\ action.kind # ADD_API_WALLET

\* C11: for every variant with static fields only, the header of the decoded
\* action id followed by the decoded raw params is byte for byte the action the
\* builder returned; the params string holds two digits for every byte after
\* the header, so that decode_action loses no byte.
C11_ReEncodeRoundTrip ==
    DecodedStatic =>
       /\ decoded.ok
       /\ SubSeq(decoded.params, 1, 2) = <<"0", "x">>
       /\ Len(decoded.params) = 2 + 2 * (Len(encoded.bytes) - 4)
       /\ fromhex(SubSeq(decoded.params, 3, Len(decoded.params))).ok
       /\ ReEncoded(decoded) = encoded.bytes

C11_Witness ==
    /\ DecodedStatic
    /\ action.kind = LIMIT_ORDER
    /\ decIn.isStr
    /\ Len(encoded.bytes) = 4 + 7 * 32
    /\ ReEncoded(decoded) = encoded.bytes

(***************************************************************************)
(* Properties of the PerpAssetInfo parser                                  *)
(***************************************************************************)
\* The byte offsets, in the response parsed, of the string's length word and of
\* the end of the string's data.
LengthWordStart == response.base + response.soff
StringDataEnd == response.base + response.soff + 32 + Len(response.coin)

Truncated == pc = "parsed" /\ response.cut < StringDataEnd

\* The bytes of a coin that are not zero, as character codes.
NonZeroBytes(c) == SelectSeq(c, LAMBDA x : x # 0)

\* C8: for a zero-length response and for a response truncated anywhere before
\* the end of the string data, also in the middle of the string's length word,
\* _parse_perp_asset_info returns None; it returns no record built from a
\* partially present word.
C8_TruncatedGivesNone ==
    Truncated => ~info.ok

\* C9: from a well-formed response (word 0 the tuple's base offset, the head words
\* string offset, marginTableId, szDecimals, maxLeverage, onlyIsolated, the string
\* offset relative to the head and pointing at a length word followed by the
\* data) the parser returns the record of the four head fields, with the coin
\* made of the data bytes that are not zero; "BTC" decodes to "BTC".
C9_WellFormedDecodes ==
    (pc = "parsed" /\ response.cut = Len(response.full)) =>
       /\ info.ok
       /\ info.index = response.index
       /\ info.margin_table_id = response.margin_table_id
       /\ info.sz_decimals = response.sz_decimals
       /\ info.max_leverage = response.max_leverage
       /\ info.only_isolated = response.only_isolated
       /\ info.coin = NonZeroBytes(response.coin)
       /\ response.coin = <<66, 84, 67>> => info.coin = <<66, 84, 67>>

C9_Witness ==
    /\ pc = "parsed"
    /\ response.cut = Len(response.full)
    /\ response.coin = <<66, 84, 67>>
    /\ response.base = 64
    /\ info.ok
    /\ info.coin = <<66, 84, 67>>

(***************************************************************************)
(* Properties of the batch reader                                          *)
(***************************************************************************)
CeilDiv(n, size) == (n + size - 1) \div size

\* cs cuts lst into contiguous pieces of size elements, the last one of 1..size.
IsPartition(cs, lst, size) ==
    /\ Len(cs) = CeilDiv(Len(lst), size)
    /\ \A k \in 1..Len(cs) : Len(cs[k]) >= 1 /\ Len(cs[k]) <= size
    /\ \A k \in 1..(Len(cs) - 1) : Len(cs[k]) = size
    /\ Flatten(cs) = lst

SizesOf(cs) == [k \in 1..Len(cs) |-> Len(cs[k])]

\* C4: chunk_list(lst, chunk_size) with chunk_size >= 1 gives contiguous,
\* non-empty chunks of at most chunk_size elements, all but the last of exactly
\* chunk_size, ceil(N / chunk_size) of them, whose concatenation is lst; get_all_*
\* issues one batch call per chunk, in the order of the chunks and each of the
\* chunk's size, and a get_all_positions or get_all_mark_prices that returns has
\* issued exactly two, of sizes 200 and 25.
C4_ChunksAndCalls ==
    /\ (op = "chunk_list" /\ pc = "done" /\ batch_size >= 1) =>
          IsPartition(out, req, batch_size)
    /\ op \in GetAllOps =>
          /\ IsPartition(chunks, Range(UniverseOf(op)), batch_size)
          /\ Len(issued) = Min(ci + 1, Len(chunks))
          /\ issued = SubSeq(SizesOf(chunks), 1, Len(issued))
          /\ pc = "awaiting" => req = chunks[ci + 1] /\ Len(calls) = Len(req)
          /\ pc = "done" => issued = SizesOf(chunks)
          /\ (pc = "done" /\ op \in {"get_all_positions", "get_all_mark_prices"}) =>
                issued = <<200, 25>>

C4_Witness ==
    /\ op = "get_all_positions"
    /\ pc = "done"
    /\ Len(chunks) = 2
    /\ issued = <<200, 25>>

\* The positions (from 1) of the elements that report success = false.
Failed(rs) == {i \in 1..Len(rs) : ~rs[i].success}

\* A list without the elements at the positions of drop.
Without(s, drop) ==
    LET keep == SelectSeq([i \in 1..Len(s) |-> i], LAMBDA i : i \notin drop)
    IN [k \in 1..Len(keep) |-> s[keep[k]]]

\* How the operation ended: its value or its exception.
Outcome == [ok |-> pc = "done", value |-> out, err |-> err]

\* The aggregate3 call of a batch_get_* called directly has returned.
Answered == op \in BatchOps /\ behav # <<>>

\* C5: an element with success = false yields no record, causes no error and
\* leaves the records of the other elements as they are: a batch_get_* ends as
\* it would have ended without the failed elements, it returns when every
\* successful element carries the precompile's data, with one record for each
\* of them; get_all_positions returns at most 225 records, and fewer than 225
\* when an element reported success = false.
C5_FailedElementsAreSilent ==
    /\ Answered =>
          /\ Outcome = ProcessResults(op, Without(req, Failed(results)),
                                      Without(results, Failed(results)))
          /\ (\A i \in 1..Len(results) :
                 results[i].success => behav[1][i] \in {"ok", "long"}) =>
                /\ pc = "done"
                /\ IF KindOf(op) = "markPx"
                   THEN DOMAIN out = {req[i] : i \in (1..Len(req)) \ Failed(results)}
                   ELSE Len(out) = Len(results) - Cardinality(Failed(results))
    /\ (op = "get_all_positions" /\ pc = "done") =>
          /\ Len(out) <= total_perps
          /\ (\E c \in 1..Len(behav) : \E i \in 1..Len(behav[c]) :
                 behav[c][i] \in {"fail", "failData"}) => Len(out) < total_perps

C5_Witness ==
    /\ op = "batch_get_positions"
    /\ pc = "done"
    /\ req = <<0, 5, 5>>
    /\ behav = << <<"ok", "failData", "ok">> >>
    /\ Len(out) = 2

\* The positions (from 1) of the elements that carry the precompile's data.
Producers ==
    SelectSeq([i \in 1..Len(req) |-> i], LAMBDA i : behav[1][i] \in {"ok", "long"})

\* The logical index a record carries.
IndexOfRecord(kind, r) ==
    CASE kind = "position" -> r.perp_index
      [] kind = "spotBalance" -> r.token_index
      [] kind = "perpAssetInfo" -> r.index

\* The record holds what the chain holds for the logical index idx.
HoldsDataOf(kind, r, idx) ==
    CASE kind = "position" ->
            [szi |-> r.szi, entry_ntl |-> r.entry_ntl,
             isolated_raw_usd |-> r.isolated_raw_usd, leverage |-> r.leverage,
             is_isolated |-> r.is_isolated] = PositionOf(idx)
      [] kind = "spotBalance" ->
            [total |-> r.total, hold |-> r.hold, entry_ntl |-> r.entry_ntl]
               = SpotBalanceOf(idx)
      [] kind = "perpAssetInfo" ->
            /\ r.coin = PerpInfoOf(idx).coin
            /\ r.margin_table_id = PerpInfoOf(idx).margin_table_id
            /\ r.only_isolated = PerpInfoOf(idx).only_isolated

\* C6: with a response as long as the request, the call at position i is built
\* from the index at position i of the request, and the record made from the
\* result at position i carries that index (and the data of that index),
\* whatever happened to the elements before it.
C6_PositionalAlignment ==
    /\ (op \in BatchOps /\ calls # <<>>) =>
          /\ Len(calls) = Len(req)
          /\ \A i \in 1..Len(calls) :
                /\ calls[i].target = PRECOMPILES(KindOf(op))
                /\ Slice(calls[i].callData, Len(calls[i].callData) - 32,
                         Len(calls[i].callData)) = UintWord(req[i])
    /\ (Answered /\ pc = "done" /\ Len(results) = Len(req)) =>
          IF KindOf(op) = "markPx"
          THEN /\ DOMAIN out = {req[Producers[k]] : k \in 1..Len(Producers)}
               /\ \A key \in DOMAIN out : out[key] = MarkPxOf(key)
          ELSE /\ Len(out) = Len(Producers)
               /\ \A k \in 1..Len(out) :
                     /\ IndexOfRecord(KindOf(op), out[k]) = req[Producers[k]]
                     /\ HoldsDataOf(KindOf(op), out[k], req[Producers[k]])

C6_Witness ==
    /\ op = "batch_get_spot_balances"
    /\ pc = "done"
    /\ req = <<0, 5, 0>>
    /\ behav = << <<"fail", "ok", "ok">> >>
    /\ Len(out) = 2
    /\ out[1].token_index = 5
    /\ out[2].token_index = 0

\* The positions (from 1) of the successful elements whose payload is too short
\* or is no encoding of the record's tuple.
Malformed == {i \in 1..Len(req) : behav[1][i] \in {"short", "cut", "badWord"}}

\* C7: in batch_get_positions and batch_get_spot_balances a successful element
\* with a payload below 32 (24) bytes, or with a payload decode rejects, yields
\* no record: the operation returns what it returns without these elements, one
\* record for each other successful element, and never raises because of a
\* payload, nor does the get_all_* that calls it.
C7_MalformedPayloadsAreOmitted ==
    /\ (Answered /\ op \in {"batch_get_positions", "batch_get_spot_balances"}) =>
          /\ pc = "done"
          /\ err = ""
          /\ out = ProcessResults(op, Without(req, Malformed),
                                  Without(results, Malformed)).value
          /\ Len(out) = Len(req) - Cardinality(Malformed \cup Failed(results))
    /\ (op \in {"get_all_positions", "get_all_spot_balances"} /\ pc = "raised") =>
          err = "TransportError"

C7_Witness ==
    /\ op = "batch_get_positions"
    /\ pc = "done"
    /\ req = <<5, 0, 5>>
    /\ behav = << <<"cut", "badWord", "ok">> >>
    /\ Len(out) = 1
    /\ out[1].perp_index = 5

\* What holds of a get_all_* at any moment: ci chunks were answered and merged
\* (one more was answered when its batch_get_* raised), one call was issued for
\* each of them and for the chunk being waited for, in the order of the chunks; a get_all_* that raised has returned nothing, and one that
\* returned had every chunk answered.
NoRetryNoPartial ==
    op \in GetAllOps =>
       /\ Len(behav) = ci \/ (pc = "raised" /\ Len(behav) = ci + 1)
       /\ Len(issued) = Min(ci + 1, Len(chunks))
       /\ issued = SubSeq(SizesOf(chunks), 1, Len(issued))
       /\ pc = "raised" => out = <<>> /\ err # "" /\ ci < Len(chunks)
       /\ pc = "done" => ci = Len(chunks) /\ err = ""

\* What a step of a get_all_* does: a failed aggregate3 call ends the operation
\* with that error, with no further call issued and nothing returned; and the
\* only step after an exception is the caller's.
FailurePropagates ==
    op \in GetAllOps =>
       /\ (pc = "awaiting" /\ pc' = "raised") =>
             /\ err' \in {"TransportError", "InsufficientDataBytes", "NonEmptyPaddingBytes"}
             /\ issued' = issued
             /\ ci' = ci
             /\ out' = <<>>
       /\ pc = "raised" => pc' = "idle" /\ issued' = <<>> /\ out' = <<>>

\* C12: get_all_* issues the batch call of each chunk at most once; when the
\* batch call of a chunk fails as a whole the error reaches the caller of
\* get_all_*, no later chunk is dispatched and no partial result is returned.
C12_NoRetryFailurePropagates ==
    []NoRetryNoPartial /\ [][FailurePropagates]_vars

C12_Witness ==
    /\ op = "get_all_positions"
    /\ pc = "raised"
    /\ err = "TransportError"
    /\ ci = 1
    /\ issued = <<200, 25>>
    /\ Len(acc) = 200
    /\ out = <<>>

\* The positions (from 1) of the records of a list whose value is zero.
ZeroAt(kind, records) ==
    {i \in 1..Len(records) :
        IF kind = "position" THEN records[i].szi = 0 ELSE records[i].total = 0}

\* C13: get_non_zero_positions returns the records of get_all_positions with
\* szi # 0 and get_non_zero_balances those of get_all_spot_balances with
\* total # 0: none with a zero value, every other one, unchanged and in the
\* order of the full list.
C13_NonZeroFilters ==
    /\ (op = "get_non_zero_positions" /\ pc = "done") =>
          /\ \A k \in 1..Len(out) : out[k].szi # 0
          /\ Len(out) = Len(acc) - Cardinality(ZeroAt("position", acc))
          /\ out = Without(acc, ZeroAt("position", acc))
    /\ (op = "get_non_zero_balances" /\ pc = "done") =>
          /\ \A k \in 1..Len(out) : out[k].total # 0
          /\ Len(out) = Len(acc) - Cardinality(ZeroAt("spotBalance", acc))
          /\ out = Without(acc, ZeroAt("spotBalance", acc))

C13_Witness ==
    /\ op = "get_non_zero_positions"
    /\ pc = "done"
    /\ Len(acc) = 225
    /\ Len(out) = 150
    /\ \E k \in 1..Len(out) : out[k].szi < 0

\* No logical index has two records in a list of records.
OneRecordPerIndex(kind, output) ==
    \A j, k \in 1..Len(output) :
       j # k => IndexOfRecord(kind, output[j]) # IndexOfRecord(kind, output[k])

\* C14: results are merged by logical index, the last write winning: what a
\* get_all_* has merged holds at most one record for an index, and a batch_get_*
\* given an index more than once returns one record for it.  (The prices are a
\* dict, which holds one value for a key.)
C14_KeyedLastWriteWins ==
    /\ (op \in GetAllOps /\ KindOf(op) # "markPx") =>
          OneRecordPerIndex(KindOf(op), acc)
    /\ (Answered /\ pc = "done" /\ KindOf(op) # "markPx") =>
          OneRecordPerIndex(KindOf(op), out)

\* The content of an output by logical index: the (index, price) pairs of the
\* prices, the records of a list (each carries its index).
Records(kind, output) ==
    IF kind = "markPx" THEN {<<key, output[key]>> : key \in DOMAIN output}
    ELSE {output[k] : k \in 1..Len(output)}

\* What batch_get_* makes of chunk c on its own, given the answers it got.
ChunkOutcome(c) ==
    ProcessResults(op, chunks[c], ResultsFor(KindOf(op), chunks[c], behav[c])).value

\* The chunks' outcomes merged one after the other in the order given.
RECURSIVE MergedInOrder(_)
MergedInOrder(order) ==
    IF order = <<>> THEN <<>>
    ELSE Merge(op, MergedInOrder(SubSeq(order, 1, Len(order) - 1)),
               ChunkOutcome(order[Len(order)]))

\* The orders in which the chunks can be taken.
Orders == {p \in [1..Len(chunks) -> 1..Len(chunks)] :
              \A i, j \in 1..Len(chunks) : i # j => p[i] # p[j]}

LongEnough ==
    {i \in 1..Len(results) :
        results[i].success /\ Len(results[i].returnData) >= MinLen(KindOf(op))}

\* C16: in batch_get_positions every successful element with 32 bytes or more,
\* and in batch_get_spot_balances every successful element with 24 bytes or
\* more, is decoded into a record for its index; the other elements give no
\* record.
C16_MinimumLengthsDecoded ==
    (Answered /\ op \in {"batch_get_positions", "batch_get_spot_balances"}) =>
       /\ pc = "done"
       /\ Len(out) = Cardinality(LongEnough)
       /\ \A i \in LongEnough :
             \E k \in 1..Len(out) : IndexOfRecord(KindOf(op), out[k]) = req[i]

\* C17: a successful element of a mark price batch whose payload is not empty
\* and is no uint64 word (1 to 31 bytes, say) is left out of the mapping: no
\* exception, and the prices of the other elements and chunks are returned.
C17_MarkPricesDegradeGracefully ==
    /\ (Answered /\ op = "batch_get_mark_prices") =>
          /\ pc = "done"
          /\ DOMAIN out = {req[Producers[k]] : k \in 1..Len(Producers)}
          /\ \A key \in DOMAIN out : out[key] = MarkPxOf(key)
    /\ (op = "get_all_mark_prices" /\ pc = "raised") => err = "TransportError"

====
